---- MODULE Spec2Model ----
(***************************************************************************)
(* A model of voice_changer.py (class VideoVoiceChanger): the run of       *)
(* process_video through its stages, the two reconciliation paths          *)
(* (_adjust_video_speed_with_itsscale and replace_audio_in_video), the     *)
(* pause-script composer (_create_natural_text) and the tempo planner      *)
(* (_create_tempo_filter).                                                 *)
(*                                                                         *)
(* Numbers: Python floats are modelled as exact rationals <<num, den>>     *)
(* with den > 0, kept in lowest terms.  Durations are drawn on a grid of   *)
(* a tenth of a second (a tick).  Rounding error of binary floating point   *)
(* is not modelled; decimal formatting (":.2f", ":.3f") is.                *)
(***************************************************************************)
EXTENDS Integers, Sequences, FiniteSets, TLC

VARIABLES
    pc,                 \* position of process_video
    adjust_video_speed, \* argument of process_video
    max_speed_ratio,    \* argument of process_video
    temp_dir,           \* the TemporaryDirectory of the run
    files,              \* the intermediate files on disk, as <<directory, name>>
    transcript_data,    \* result of transcribe_audio
    enhanced_text,      \* the text handed to generate()
    video_duration,     \* probe of the video in the reconcile stage
    audio_duration,     \* probe of the synthesized audio in the reconcile stage
    speed_ratio,        \* the speed applied by _adjust_video_speed_with_itsscale
    cmd,                \* the ffmpeg mux command that was run
    result,             \* return value of process_video
    stages,             \* the stages attempted, in order, as <<stage, outcome>>
    ppc,                \* position inside _create_tempo_filter
    ratio_in,           \* argument speed_ratio of _create_tempo_filter
    remaining_ratio,    \* local remaining_ratio of _create_tempo_filter
    filters             \* local filters of _create_tempo_filter

pipeVars == <<pc, adjust_video_speed, max_speed_ratio, temp_dir, files,
              transcript_data, enhanced_text, video_duration, audio_duration,
              speed_ratio, cmd, result, stages>>
planVars == <<ppc, ratio_in, remaining_ratio, filters>>
vars == <<pipeVars, planVars>>

\* Python's None where a float is expected
None == <<>>

-----------------------------------------------------------------------------
(* Bounds of the model *)

\* probed durations are 1..MaxDur ticks
MaxDur == 14
\* a transcript has 1..MaxSegs segments
MaxSegs == 2
\* planner inputs are n/d with n in 1..MaxNum, d in 1..MaxDen
MaxNum == 18
MaxDen == 7
\* every whisper segment lasts SegTicks ticks
SegTicks == 12

-----------------------------------------------------------------------------
(* Exact arithmetic standing for Python float arithmetic *)

RECURSIVE GCD(_, _)
GCD(a, b) == IF b = 0 THEN a ELSE GCD(b, a % b)

Abs(i) == IF i < 0 THEN -i ELSE i

\* a rational in lowest terms with a positive denominator
Norm(a) ==
    LET g == GCD(Abs(a[1]), Abs(a[2]))
        s == IF a[2] < 0 THEN -1 ELSE 1
    IN  <<(s * a[1]) \div g, (s * a[2]) \div g>>

Rat(n, d) == Norm(<<n, d>>)
RLt(a, b) == a[1] * b[2] < b[1] * a[2]
RLe(a, b) == a[1] * b[2] <= b[1] * a[2]
RAdd(a, b) == Norm(<<a[1] * b[2] + b[1] * a[2], a[2] * b[2]>>)
RSub(a, b) == Norm(<<a[1] * b[2] - b[1] * a[2], a[2] * b[2]>>)
RMul(a, b) == Norm(<<a[1] * b[1], a[2] * b[2]>>)
\* a / b, for b # 0
RDiv(a, b) == Norm(<<a[1] * b[2], a[2] * b[1]>>)
RAbs(a) == <<Abs(a[1]), a[2]>>

\* FormatFixed cutting the further decimals off
FormatFixed_Truncate(x, scale) ==
    Rat((x[1] * scale) \div x[2], scale)

\* f"{x:.Nf}" for x >= 0: x rounded to a multiple of 1/scale, ties to even
FormatFixed(x, scale) ==
    LET n == x[1] * scale
        q == n \div x[2]
        r == n % x[2]
        up == (2 * r > x[2]) \/ (2 * r = x[2] /\ q % 2 = 1)
    IN  Rat(IF up THEN q + 1 ELSE q, scale)

\* the truth value Python gives an Optional[float]: None and 0.0 are false
Truthy(d) == d # None /\ d[1] # 0

\* t ticks, in seconds
Ticks(t) == Rat(t, 10)

-----------------------------------------------------------------------------
(* Text: a str is a sequence of one-character strings; a pause directive   *)
(* <break time="..."/> is kept as one element, which no pattern of         *)
(* _create_natural_text matches (its '.' is followed by a digit, and the   *)
(* blank inside it follows the letter k).                                  *)

RECURSIVE LStrip(_)
LStrip(s) == IF s # <<>> /\ Head(s) = " " THEN LStrip(Tail(s)) ELSE s

RECURSIVE RStrip(_)
RStrip(s) ==
    IF s # <<>> /\ s[Len(s)] = " " THEN RStrip(SubSeq(s, 1, Len(s) - 1)) ELSE s

\* str.strip()
Strip(s) == LStrip(RStrip(s))

\* len(str.split()): the number of maximal runs of non-blank characters
RECURSIVE CountWords(_)
CountWords(s) ==
    IF s = <<>> THEN 0
    ELSE IF Head(s) = " " THEN CountWords(Tail(s))
    ELSE IF Len(s) >= 2 /\ s[2] # " " THEN CountWords(Tail(s))
    ELSE 1 + CountWords(Tail(s))

\* re.sub(r'([class])\s+', r'\1 <break time="..."/> ', text)
RECURSIVE ReSubPause(_, _, _)
ReSubPause(text, class, brk) ==
    IF text = <<>> THEN <<>>
    ELSE IF Head(text) \in class /\ Len(text) >= 2 /\ text[2] = " "
         THEN <<Head(text), " ", brk, " ">> \o ReSubPause(LStrip(Tail(text)), class, brk)
         ELSE <<Head(text)>> \o ReSubPause(Tail(text), class, brk)

Break02 == "<break time=\"0.2s\"/>"
Break03 == "<break time=\"0.3s\"/>"
Break04 == "<break time=\"0.4s\"/>"

\* _create_natural_text(transcript_data)
CreateNaturalText(td) ==
    LET t1 == ReSubPause(td.full_text, {".", "!", "?"}, Break04)
        t2 == ReSubPause(t1, {","}, Break02)
        t3 == ReSubPause(t2, {";", ":"}, Break03)
    IN  <<Break02, " ">> \o t3 \o <<" ", Break03>>

-----------------------------------------------------------------------------
(* Transcripts *)

\* the segment texts the transcription model returns (unstripped)
RawTexts == { <<" ", "a">>, <<" ", "a", ",", " ", "a", ".">> }

\* the silences between consecutive segments, in ticks
Gaps == {1, 5, 15, 30}

\* the segments of a whisper result: texts[i] spoken for SegTicks ticks,
\* gaps[i] ticks of silence after segment i
RawSegments(texts, gaps) ==
    LET start[i \in 1..Len(texts)] ==
            IF i = 1 THEN 0 ELSE start[i - 1] + SegTicks + gaps[i - 1]
    IN  [i \in 1..Len(texts) |->
            [text |-> texts[i], start |-> Ticks(start[i]),
             end |-> Ticks(start[i] + SegTicks)]]

WhisperResults ==
    UNION { { RawSegments(texts, gaps) :
                texts \in [1..n -> RawTexts], gaps \in [1..(n - 1) -> Gaps] } :
            n \in 1..MaxSegs }

RMax(a, b) == IF RLt(a, b) THEN b ELSE a

RECURSIVE JoinTexts(_)
JoinTexts(raw) ==
    IF raw = <<>> THEN <<>> ELSE Head(raw).text \o <<" ">> \o JoinTexts(Tail(raw))

RECURSIVE MaxEnd(_)
MaxEnd(raw) ==
    IF raw = <<>> THEN Rat(0, 1) ELSE RMax(Head(raw).end, MaxEnd(Tail(raw)))

\* transcribe_audio, the faster-whisper path: the transcript of a result
WhisperTranscript(raw) ==
    [full_text |-> Strip(JoinTexts(raw)),
     segments |-> [i \in 1..Len(raw) |->
                     [text |-> Strip(raw[i].text), start |-> raw[i].start,
                      end |-> raw[i].end,
                      duration |-> RSub(raw[i].end, raw[i].start)]],
     total_duration |-> MaxEnd(raw)]

\* transcribe_audio, the manual fallback: one segment at 150 words a minute
ManualTranscript(transcript) ==
    LET estimated_duration == RMul(Rat(CountWords(transcript), 150), Rat(60, 1))
    IN  [full_text |-> transcript,
         segments |-> << [text |-> transcript, start |-> Rat(0, 1),
                          end |-> estimated_duration,
                          duration |-> estimated_duration] >>,
         total_duration |-> estimated_duration]

\* what the user types at the prompt, stripped
ManualTexts == { <<>>, <<"a", ";", " ", "a", "?", " ", " ", "a", ":", " ", "a", "!">> }

\* transcribe_audio returning None (a transcript it returns has text)
NoTranscript == [full_text |-> <<>>, segments |-> <<>>, total_duration |-> Rat(0, 1)]

\* the values transcribe_audio can return
Transcripts ==
    { WhisperTranscript(raw) : raw \in WhisperResults }
    \cup { IF t = <<>> THEN NoTranscript ELSE ManualTranscript(t) : t \in ManualTexts }

-----------------------------------------------------------------------------
(* The Duration Prober and the two reconciliation paths *)

\* _get_media_duration: None, or the duration ffprobe prints
ProbeResults == {None} \cup { Ticks(t) : t \in 1..MaxDur }

\* the ffmpeg command: its video codec, its -itsscale value, its -af options
\* (pairs <<filter, argument>>), whether -shortest is in it and whether
\* subprocess.run was called on it; here, before anything is added
NoCmd == [vcodec |-> "", itsscale |-> None, af |-> <<>>, shortest |-> FALSE,
          ran |-> FALSE]

\* ClampSpeed without the limit on the slowdown
ClampSpeed_NoFloor(raw, max) ==
    IF RLt(max, raw) THEN max ELSE raw

\* the speed ratio limited to 0.5x .. max_speed_ratio
ClampSpeed(raw, max) ==
    IF RLt(raw, Rat(1, 2)) THEN Rat(1, 2)
    ELSE IF RLt(max, raw) THEN max
    ELSE raw

\* ItsscaleAudioFilter with the 1.0 s tolerance of replace_audio_in_video
ItsscaleAudioFilter_OneSecond(audio, final_video_duration, c) ==
    IF RLt(audio, RSub(final_video_duration, Rat(1, 1)))
    THEN [c EXCEPT !.af = Append(@, <<"apad", FormatFixed(final_video_duration, 100)>>)]
    ELSE IF RLt(RAdd(final_video_duration, Rat(1, 1)), audio)
    THEN [c EXCEPT !.af = Append(@, <<"atrim", FormatFixed(final_video_duration, 100)>>)]
    ELSE c

\* the -af option of _adjust_video_speed_with_itsscale
ItsscaleAudioFilter(audio, final_video_duration, c) ==
    IF RLt(audio, RSub(final_video_duration, Rat(1, 2)))
    THEN [c EXCEPT !.af = Append(@, <<"apad", FormatFixed(final_video_duration, 100)>>)]
    ELSE IF RLt(RAdd(final_video_duration, Rat(1, 2)), audio)
    THEN [c EXCEPT !.af = Append(@, <<"atrim", FormatFixed(final_video_duration, 100)>>)]
    ELSE c

\* AdjustVideoSpeed taking video * speed for the duration of the scaled video
AdjustVideoSpeed_Multiply(video, audio, max) ==
    IF ~Truthy(video) \/ ~Truthy(audio)
    THEN [outcome |-> "no_durations", speed |-> None, cmd |-> NoCmd]
    ELSE LET speed == ClampSpeed(RDiv(video, audio), max)
         IN  IF speed[1] = 0
             THEN [outcome |-> "exception", speed |-> speed, cmd |-> NoCmd]
             ELSE [outcome |-> "run", speed |-> speed,
                   cmd |-> ItsscaleAudioFilter(audio, RMul(video, speed),
                             [NoCmd EXCEPT !.vcodec = "libx264",
                                           !.itsscale = RDiv(Rat(1, 1), speed)])]

\* _adjust_video_speed_with_itsscale up to the ffmpeg call: the outcome
\* "no_durations", "exception" (1.0 / 0.0) or "run" with the command
AdjustVideoSpeed(video, audio, max) ==
    IF ~Truthy(video) \/ ~Truthy(audio)
    THEN [outcome |-> "no_durations", speed |-> None, cmd |-> NoCmd]
    ELSE LET speed == ClampSpeed(RDiv(video, audio), max)
         IN  IF speed[1] = 0
             THEN [outcome |-> "exception", speed |-> speed, cmd |-> NoCmd]
             ELSE [outcome |-> "run", speed |-> speed,
                   cmd |-> ItsscaleAudioFilter(audio, RDiv(video, speed),
                             [NoCmd EXCEPT !.vcodec = "libx264",
                                           !.itsscale = RDiv(Rat(1, 1), speed)])]

\* ReplaceAudioCmd adjusting already at a difference of exactly 1.0 s
ReplaceAudioCmd_AtLeast(video, audio) ==
    LET c == [NoCmd EXCEPT !.vcodec = "copy"]
    IN  IF Truthy(video) /\ Truthy(audio)
        THEN IF RLe(Rat(1, 1), RAbs(RSub(video, audio)))
             THEN IF RLt(audio, video)
                  THEN [c EXCEPT !.af = Append(@, <<"apad", video>>)]
                  ELSE [c EXCEPT !.af = Append(@, <<"atrim", video>>)]
             ELSE [c EXCEPT !.shortest = TRUE]
        ELSE [c EXCEPT !.shortest = TRUE]

\* ReplaceAudioCmd padding to whichever duration is known when one is missing
ReplaceAudioCmd_NoFallback(video, audio) ==
    LET c == [NoCmd EXCEPT !.vcodec = "copy"]
    IN  IF Truthy(video) /\ Truthy(audio)
        THEN IF RLt(Rat(1, 1), RAbs(RSub(video, audio)))
             THEN IF RLt(audio, video)
                  THEN [c EXCEPT !.af = Append(@, <<"apad", video>>)]
                  ELSE [c EXCEPT !.af = Append(@, <<"atrim", video>>)]
             ELSE [c EXCEPT !.shortest = TRUE]
        ELSE IF Truthy(video)
        THEN [c EXCEPT !.af = Append(@, <<"apad", video>>)]
        ELSE [c EXCEPT !.shortest = TRUE]

\* replace_audio_in_video up to the ffmpeg call: the command
ReplaceAudioCmd(video, audio) ==
    LET c == [NoCmd EXCEPT !.vcodec = "copy"]
    IN  IF Truthy(video) /\ Truthy(audio)
        THEN IF RLt(Rat(1, 1), RAbs(RSub(video, audio)))
             THEN IF RLt(audio, video)
                  THEN [c EXCEPT !.af = Append(@, <<"apad", video>>)]
                  ELSE [c EXCEPT !.af = Append(@, <<"atrim", video>>)]
             ELSE [c EXCEPT !.shortest = TRUE]
        ELSE [c EXCEPT !.shortest = TRUE]

-----------------------------------------------------------------------------
(* process_video *)

\* the ceilings a caller passes as --max-speed-ratio
MaxSpeedRatios == { Rat(0, 1), Rat(3, 10), Rat(1, 2), Rat(2, 1), Rat(5, 2) }

PlannerIdle ==
    /\ ppc = "idle"
    /\ ratio_in = None
    /\ remaining_ratio = None
    /\ filters = <<>>

\* the state at the call of process_video
PipelineStart ==
    /\ pc = "start"
    /\ temp_dir = "absent"
    /\ files = {}
    /\ transcript_data = NoTranscript
    /\ enhanced_text = <<>>
    /\ video_duration = None
    /\ audio_duration = None
    /\ speed_ratio = None
    /\ cmd = NoCmd
    /\ result = "pending"
    /\ stages = <<>>

Init ==
    /\ adjust_video_speed \in BOOLEAN
    /\ max_speed_ratio \in MaxSpeedRatios
    /\ PipelineStart
    /\ PlannerIdle

\* the paths of the intermediate files: <<directory, name>>
TempAudio == <<"temp_dir", "extracted_audio.wav">>
TempAiAudio == <<"temp_dir", "ai_voice.mp3">>

\* no output_path given to generate_ai_voice_with_timing
NoPath == <<>>

\* the file generate_ai_voice_with_timing writes: output_path, or a
\* tempfile.mktemp name outside the run's directory when none is given
VoiceOutputPath(output_path) ==
    IF output_path = NoPath THEN <<"tmp", "mktemp.mp3">> ELSE output_path

\* Return removing the directory only when the run succeeded
Return_LeakOnFailure(r) ==
    /\ pc' = "returned"
    /\ result' = r
    /\ temp_dir' = IF temp_dir = "present" /\ r = "success" THEN "removed" ELSE temp_dir
    /\ files' = IF temp_dir = "present" /\ r = "success"
                THEN { f \in files : f[1] # "temp_dir" }
                ELSE files

\* process_video returns r; leaving the with block removes the directory
\* and everything in it
Return(r) ==
    /\ pc' = "returned"
    /\ result' = r
    /\ temp_dir' = IF temp_dir = "present" THEN "removed" ELSE temp_dir
    /\ files' = IF temp_dir = "present"
                THEN { f \in files : f[1] # "temp_dir" }
                ELSE files

\* AfterStage going on to the next stage whatever the stage returned
AfterStage_IgnoreFailure(stage, ok, next, created) ==
    /\ stages' = Append(stages, <<stage, IF ok THEN "ok" ELSE "failed">>)
    /\ pc' = next
    /\ files' = files \cup created
    /\ UNCHANGED <<temp_dir, result>>

\* "if not <stage>: return False" of steps 1 to 3: the stage was attempted
\* and returned ok; on success it leaves the files created and the run goes
\* on to next
AfterStage(stage, ok, next, created) ==
    /\ stages' = Append(stages, <<stage, IF ok THEN "ok" ELSE "failed">>)
    /\ IF ok
       THEN /\ pc' = next
            /\ files' = files \cup created
            /\ UNCHANGED <<temp_dir, result>>
       ELSE Return("failure")

\* "if not <stage>: return False" of step 4, and the return True after it
AfterLastStage(stage, ok) ==
    /\ stages' = Append(stages, <<stage, IF ok THEN "ok" ELSE "failed">>)
    /\ Return(IF ok THEN "success" ELSE "failure")

\* the check of the input path and the creation of the temporary directory
Start ==
    /\ pc = "start"
    /\ \E exists \in BOOLEAN :
         IF exists
         THEN /\ pc' = "extract"
              /\ temp_dir' = "present"
              /\ UNCHANGED <<files, result>>
         ELSE Return("failure")
    /\ UNCHANGED <<adjust_video_speed, max_speed_ratio, transcript_data, enhanced_text,
                   video_duration, audio_duration, speed_ratio, cmd, stages, planVars>>

\* step 1: extract_audio
ExtractAudio ==
    /\ pc = "extract"
    /\ \E ok \in BOOLEAN : AfterStage("extract", ok, "transcribe", {TempAudio})
    /\ UNCHANGED <<adjust_video_speed, max_speed_ratio, transcript_data, enhanced_text,
                   video_duration, audio_duration, speed_ratio, cmd, planVars>>

\* step 2: transcribe_audio
TranscribeAudio ==
    /\ pc = "transcribe"
    /\ \E t \in Transcripts :
         /\ transcript_data' = t
         /\ AfterStage("transcribe", t # NoTranscript, "synthesize", {})
    /\ UNCHANGED <<adjust_video_speed, max_speed_ratio, enhanced_text,
                   video_duration, audio_duration, speed_ratio, cmd, planVars>>

\* step 3: generate_ai_voice_with_timing
GenerateVoice ==
    /\ pc = "synthesize"
    /\ \E outcome \in {"unavailable", "error", "ok"} :
         /\ enhanced_text' = IF outcome = "unavailable" THEN <<>>
                             ELSE CreateNaturalText(transcript_data)
         /\ AfterStage("synthesize", outcome = "ok", "reconcile",
                       {VoiceOutputPath(TempAiAudio)})
    /\ UNCHANGED <<adjust_video_speed, max_speed_ratio, transcript_data,
                   video_duration, audio_duration, speed_ratio, cmd, planVars>>

\* step 4 with adjust_video_speed: _adjust_video_speed_with_itsscale
ScaleVideo ==
    /\ pc = "reconcile"
    /\ adjust_video_speed
    /\ \E video \in ProbeResults, audio \in ProbeResults, returncode \in {0, 1} :
         LET r == AdjustVideoSpeed(video, audio, max_speed_ratio)
         IN  /\ video_duration' = video
             /\ audio_duration' = audio
             /\ speed_ratio' = r.speed
             /\ cmd' = [r.cmd EXCEPT !.ran = (r.outcome = "run")]
             /\ r.outcome # "run" => returncode = 0
             /\ AfterLastStage("scale_video", r.outcome = "run" /\ returncode = 0)
    /\ UNCHANGED <<adjust_video_speed, max_speed_ratio, transcript_data, enhanced_text,
                   planVars>>

\* step 4 without adjust_video_speed: replace_audio_in_video
ReplaceAudio ==
    /\ pc = "reconcile"
    /\ ~adjust_video_speed
    /\ \E video \in ProbeResults, audio \in ProbeResults, returncode \in {0, 1} :
         /\ video_duration' = video
         /\ audio_duration' = audio
         /\ cmd' = [ReplaceAudioCmd(video, audio) EXCEPT !.ran = TRUE]
         /\ AfterLastStage("replace_audio", returncode = 0)
    /\ UNCHANGED <<adjust_video_speed, max_speed_ratio, transcript_data, enhanced_text,
                   speed_ratio, planVars>>

Next ==
    \/ Start
    \/ ExtractAudio
    \/ TranscribeAudio
    \/ GenerateVoice
    \/ ScaleVideo
    \/ ReplaceAudio

Spec == Init /\ [][Next]_vars

-----------------------------------------------------------------------------
(* Properties of the reconciliation paths *)

RMin(a, b) == IF RLt(b, a) THEN b ELSE a

\* the run built and ran the command of _adjust_video_speed_with_itsscale
ModeBRan == pc = "returned" /\ adjust_video_speed /\ cmd.ran

\* the run built and ran the command of replace_audio_in_video
ModeARan == pc = "returned" /\ ~adjust_video_speed /\ cmd.ran

\* the command holds an -af option with this filter
HasFilter(kind) == \E i \in 1..Len(cmd.af) : cmd.af[i][1] = kind

\* C1 as stated: for every max_speed_ratio, the speed applied in mode B lies in
\* [0.5, max_speed_ratio] and the -itsscale value is its inverse.
C1_SpeedInRangeForEveryCeiling ==
    ModeBRan =>
        /\ RLe(Rat(1, 2), speed_ratio)
        /\ RLe(speed_ratio, max_speed_ratio)
        /\ RMul(cmd.itsscale, speed_ratio) = Rat(1, 1)

\* C1 amended: for every max_speed_ratio >= 0.5, the speed applied in mode B is
\* Vo/Aa clamped to [0.5, max_speed_ratio], so it lies in that interval, and the
\* -itsscale value is 1/speed.
C1_SpeedClamped ==
    (ModeBRan /\ RLe(Rat(1, 2), max_speed_ratio)) =>
        /\ speed_ratio =
             RMax(Rat(1, 2), RMin(RDiv(video_duration, audio_duration), max_speed_ratio))
        /\ RLe(Rat(1, 2), speed_ratio)
        /\ RLe(speed_ratio, max_speed_ratio)
        /\ RMul(cmd.itsscale, speed_ratio) = Rat(1, 1)

\* a raw ratio of 4.0 with max_speed_ratio 2.5 was clamped to 2.5
C1_Witness ==
    /\ ModeBRan
    /\ max_speed_ratio = Rat(5, 2)
    /\ RDiv(video_duration, audio_duration) = Rat(4, 1)
    /\ speed_ratio = Rat(5, 2)
    /\ cmd.itsscale = Rat(2, 5)

\* C2: in mode B, with D = Vo / applied speed, the command pads the audio to D
\* exactly when Aa < D - 0.5, trims it to D exactly when Aa > D + 0.5, holds no
\* audio filter when |Aa - D| <= 0.5, and never holds both.  (The duration is
\* written with two decimals, so it is D to within 0.005.)
C2_PadTrimDecision ==
    ModeBRan =>
        LET D == RDiv(video_duration, speed_ratio)
        IN  /\ HasFilter("apad") <=> RLt(audio_duration, RSub(D, Rat(1, 2)))
            /\ HasFilter("atrim") <=> RLt(RAdd(D, Rat(1, 2)), audio_duration)
            /\ cmd.af = <<>> <=> RLe(RAbs(RSub(audio_duration, D)), Rat(1, 2))
            /\ Len(cmd.af) <= 1
            /\ \A i \in 1..Len(cmd.af) :
                 /\ cmd.af[i][1] \in {"apad", "atrim"}
                 /\ RLe(RAbs(RSub(cmd.af[i][2], D)), Rat(1, 200))

\* a clamped speed-up left the audio short of the scaled video, and it was padded
C2_Witness ==
    /\ ModeBRan
    /\ HasFilter("apad")
    /\ RLt(audio_duration, RSub(RDiv(video_duration, speed_ratio), Rat(1, 2)))

C4_FallbackToShortest ==
    (/\ pc = "returned"
     /\ ~adjust_video_speed
     /\ Len(stages) = 4
     /\ (video_duration = None \/ audio_duration = None)) =>
        /\ cmd.ran
        /\ cmd.vcodec = "copy"
        /\ cmd.shortest
        /\ cmd.af = <<>>

\* only the audio duration is missing; the mux ran with -shortest and succeeded
C4_Witness ==
    /\ ModeARan
    /\ video_duration # None
    /\ audio_duration = None
    /\ cmd.shortest
    /\ result = "success"

\* C5 as stated: in either mode, a probe that gives no duration does not fail
\* the run: the reconcile stage still runs the mux, and the run succeeds when
\* the mux does.
C5_DurationUnknownNotFatal ==
    (/\ pc = "returned"
     /\ Len(stages) = 4
     /\ (video_duration = None \/ audio_duration = None)) =>
        cmd.ran

\* C6 as stated: in mode A the synthesized audio is tempo-scaled by 1/stretch,
\* stretch being Ao/Ag clamped to [0.5, 2.0], unless that tempo is 1.0 (the
\* only ratio whose decomposition is empty).
C6_ModeAStretchesAudio ==
    (ModeARan /\ audio_duration # None) =>
        LET stretch == RMax(Rat(1, 2),
                            RMin(RDiv(transcript_data.total_duration, audio_duration),
                                 Rat(2, 1)))
            tempo == RDiv(Rat(1, 1), stretch)
        IN  tempo # Rat(1, 1) => HasFilter("atempo")

Break15 == "<break time=\"1.5s\"/>"
Break20 == "<break time=\"2.0s\"/>"

\* the elements of a text
Elements(text) == { text[i] : i \in 1..Len(text) }

\* C7 as stated, in the two tiers whose directive the specification fixes: for
\* a transcript of more than one segment, the script holds a 2.0 s pause for
\* every gap above 2.0 s and a pause of g for every gap g of 1.5 s.
C7_GapTiering ==
    (enhanced_text # <<>> /\ Len(transcript_data.segments) > 1) =>
        \A i \in 1..(Len(transcript_data.segments) - 1) :
            LET g == RSub(transcript_data.segments[i + 1].start,
                          transcript_data.segments[i].end)
            IN  /\ RLt(Rat(2, 1), g) => Break20 \in Elements(enhanced_text)
                /\ g = Rat(3, 2) => Break15 \in Elements(enhanced_text)

-----------------------------------------------------------------------------
(* _create_tempo_filter, statement by statement.  filters holds the         *)
(* multipliers of the atempo entries, in the order they are appended.       *)

\* the ratios the planner is called with
PlannerRatios ==
    { Rat(n, d) : n \in 1..MaxNum, d \in 1..MaxDen }
    \cup { Rat(2499, 2500), Rat(2501, 2500) }

InitPlanner ==
    /\ adjust_video_speed = TRUE
    /\ max_speed_ratio = Rat(5, 2)
    /\ PipelineStart
    /\ ppc = "call"
    /\ ratio_in \in PlannerRatios
    /\ remaining_ratio = None
    /\ filters = <<>>

\* if speed_ratio == 1.0: return ""; filters = []; remaining_ratio = speed_ratio
PlannerEnter ==
    /\ ppc = "call"
    /\ IF ratio_in = Rat(1, 1)
       THEN /\ ppc' = "done"
            /\ UNCHANGED <<remaining_ratio, filters>>
       ELSE /\ ppc' = "ceiling"
            /\ remaining_ratio' = ratio_in
            /\ filters' = <<>>
    /\ UNCHANGED <<ratio_in, pipeVars>>

\* CeilingLoop leaving the loop only below 2.0
CeilingLoop_AtLeast ==
    /\ ppc = "ceiling"
    /\ IF RLe(Rat(2, 1), remaining_ratio)
       THEN /\ filters' = Append(filters, Rat(2, 1))
            /\ remaining_ratio' = RDiv(remaining_ratio, Rat(2, 1))
            /\ UNCHANGED ppc
       ELSE /\ ppc' = "floor"
            /\ UNCHANGED <<remaining_ratio, filters>>
    /\ UNCHANGED <<ratio_in, pipeVars>>

\* CeilingLoop halving the remaining ratio twice for one emitted operation
CeilingLoop_DivideTwice ==
    /\ ppc = "ceiling"
    /\ IF RLt(Rat(2, 1), remaining_ratio)
       THEN /\ filters' = Append(filters, Rat(2, 1))
            /\ remaining_ratio' = RDiv(remaining_ratio, Rat(4, 1))
            /\ UNCHANGED ppc
       ELSE /\ ppc' = "floor"
            /\ UNCHANGED <<remaining_ratio, filters>>
    /\ UNCHANGED <<ratio_in, pipeVars>>

\* while remaining_ratio > 2.0: one test of the loop, and its body
CeilingLoop ==
    /\ ppc = "ceiling"
    /\ IF RLt(Rat(2, 1), remaining_ratio)
       THEN /\ filters' = Append(filters, Rat(2, 1))
            /\ remaining_ratio' = RDiv(remaining_ratio, Rat(2, 1))
            /\ UNCHANGED ppc
       ELSE /\ ppc' = "floor"
            /\ UNCHANGED <<remaining_ratio, filters>>
    /\ UNCHANGED <<ratio_in, pipeVars>>

\* FloorLoop that never iterates
FloorLoop_Skip ==
    /\ ppc = "floor"
    /\ ppc' = "remainder"
    /\ UNCHANGED <<remaining_ratio, filters, ratio_in, pipeVars>>

\* while remaining_ratio < 0.5: one test of the loop, and its body
FloorLoop ==
    /\ ppc = "floor"
    /\ IF RLt(remaining_ratio, Rat(1, 2))
       THEN /\ filters' = Append(filters, Rat(1, 2))
            /\ remaining_ratio' = RDiv(remaining_ratio, Rat(1, 2))
            /\ UNCHANGED ppc
       ELSE /\ ppc' = "remainder"
            /\ UNCHANGED <<remaining_ratio, filters>>
    /\ UNCHANGED <<ratio_in, pipeVars>>

\* if remaining_ratio != 1.0: append it with three decimals; return the chain
PlannerRemainder ==
    /\ ppc = "remainder"
    /\ filters' = IF remaining_ratio # Rat(1, 1)
                  THEN Append(filters, FormatFixed(remaining_ratio, 1000))
                  ELSE filters
    /\ ppc' = "done"
    /\ UNCHANGED <<remaining_ratio, ratio_in, pipeVars>>

NextPlanner ==
    \/ PlannerEnter
    \/ CeilingLoop
    \/ FloorLoop
    \/ PlannerRemainder

SpecPlanner == InitPlanner /\ [][NextPlanner]_vars

\* the call runs to its return: the interpreter executes the next statement
SpecPlannerLive == SpecPlanner /\ WF_vars(NextPlanner)

-----------------------------------------------------------------------------
(* Properties of the tempo planner *)

RECURSIVE Product(_)
Product(ms) == IF ms = <<>> THEN Rat(1, 1) ELSE RMul(Head(ms), Product(Tail(ms)))

\* C8: every multiplier the planner emits lies in [0.5, 2.0].
C8_MultipliersInRange ==
    \A i \in 1..Len(filters) :
        RLe(Rat(1, 2), filters[i]) /\ RLe(filters[i], Rat(2, 1))

\* the planner returned a chain of two floor operations and a remainder
C8_Witness ==
    /\ ppc = "done"
    /\ Len(filters) = 3
    /\ filters[1] = Rat(1, 2)
    /\ filters[2] = Rat(1, 2)
    /\ RLt(filters[3], Rat(1, 1))

\* C9 as stated: the product of the multipliers written into the chain equals
\* the ratio within floating tolerance (here a relative error of 1e-6).
C9_ProductWithinFloatTolerance ==
    ppc = "done" =>
        RLe(RMul(RAbs(RSub(Product(filters), ratio_in)), Rat(1000000, 1)), ratio_in)

\* C9 amended: the product of the multipliers written into the chain equals the
\* ratio up to the rounding of the last multiplier to three decimals: it
\* differs from the ratio by at most 0.0005 times the product of the 2.0 / 0.5
\* operations before it.
C9_ProductUpToRounding ==
    ppc = "done" =>
        IF filters = <<>>
        THEN ratio_in = Rat(1, 1)
        ELSE RLe(RAbs(RSub(Product(filters), ratio_in)),
                 RMul(Rat(1, 2000), Product(SubSeq(filters, 1, Len(filters) - 1))))

\* a chain after a ceiling operation whose written product is not the ratio
C9_Witness ==
    /\ ppc = "done"
    /\ Len(filters) >= 2
    /\ filters[1] = Rat(2, 1)
    /\ Product(filters) # ratio_in

\* C10: the planner returns the empty chain for 1.0 and a non-empty chain for
\* every other positive ratio, the remainder left by the loops never being 1.0.
C10_EmptyOnlyForOne ==
    /\ ppc = "done" => (filters = <<>> <=> ratio_in = Rat(1, 1))
    /\ (ppc = "remainder" /\ ratio_in # Rat(1, 1)) => remaining_ratio # Rat(1, 1)

\* 4.0 leaves the remainder 2.0, which is emitted as the last operation
C10_Witness ==
    /\ ppc = "done"
    /\ ratio_in = Rat(4, 1)
    /\ filters = <<Rat(2, 1), Rat(2, 1)>>

-----------------------------------------------------------------------------
(* Properties of the run of process_video *)

\* the stages of a run, in their order: the names the i-th stage can have
StageOrder ==
    << {"extract"}, {"transcribe"}, {"synthesize"}, {"scale_video", "replace_audio"} >>

\* C11: the stages run in the fixed order extract, transcribe, synthesize,
\* then the mode's reconcile-and-mux stage, each at most once; a stage is
\* attempted only after every earlier one succeeded; a failed stage is the last
\* one and the run returns failure; the run returns success only after the mux
\* ran and the last stage succeeded.
C11_FailFastInOrder ==
    /\ Len(stages) <= Len(StageOrder)
    /\ \A i \in 1..Len(stages) :
         /\ stages[i][1] \in StageOrder[i]
         /\ i < Len(stages) => stages[i][2] = "ok"
    /\ Len(stages) = 4 => (stages[4][1] = "scale_video" <=> adjust_video_speed)
    /\ (stages # <<>> /\ stages[Len(stages)][2] = "failed") =>
         (pc = "returned" /\ result = "failure")
    /\ result = "success" =>
         /\ pc = "returned"
         /\ Len(stages) = 4
         /\ stages[4][2] = "ok"
         /\ cmd.ran
    /\ result = "pending" <=> pc # "returned"

\* the synthesis failed: extraction and transcription had succeeded, no
\* reconcile stage ran, and the run returned failure
C11_Witness ==
    /\ pc = "returned"
    /\ result = "failure"
    /\ stages = << <<"extract", "ok">>, <<"transcribe", "ok">>, <<"synthesize", "failed">> >>
    /\ ~cmd.ran

\* C12: every intermediate file lies in the run's temporary directory, which
\* exists while they do; when process_video has returned, the directory, once
\* created, is removed and no intermediate file is left.
C12_TempDirReclaimed ==
    /\ \A f \in files : f[1] = "temp_dir"
    /\ files # {} => temp_dir = "present"
    /\ stages # <<>> => temp_dir # "absent"
    /\ pc = "returned" =>
         /\ temp_dir \in {"absent", "removed"}
         /\ temp_dir = "absent" => stages = <<>>
         /\ files = {}

\* the mux failed after both intermediate files had been written, and the
\* directory is gone
C12_Witness ==
    /\ pc = "returned"
    /\ result = "failure"
    /\ Len(stages) = 4
    /\ cmd.ran
    /\ temp_dir = "removed"
    /\ files = {}

-----------------------------------------------------------------------------
(* Termination and shape of the tempo planner *)

\* the operations before the last one are all at m
FixedOperations(m) == \A i \in 1..(Len(filters) - 1) : filters[i] = m

\* the chain returned: operations at 2.0 and a remainder in (1.0, 2.0], or
\* operations at 0.5 and a remainder in [0.5, 1.0); the remainder is written
\* last, with three decimals
ChainShape ==
    /\ filters # <<>>
    /\ filters[Len(filters)] = FormatFixed(remaining_ratio, 1000)
    /\ \/ /\ FixedOperations(Rat(2, 1))
          /\ RLt(Rat(1, 1), remaining_ratio)
          /\ RLe(remaining_ratio, Rat(2, 1))
       \/ /\ FixedOperations(Rat(1, 2))
          /\ RLe(Rat(1, 2), remaining_ratio)
          /\ RLt(remaining_ratio, Rat(1, 1))

\* no operation of the floor loop follows an operation of the ceiling loop
NoFloorAfterCeiling ==
    \A i \in 1..Len(filters) : \A j \in (i + 1)..Len(filters) :
        ~(filters[i] = Rat(2, 1) /\ filters[j] = Rat(1, 2))

\* C14 as stated: for every positive ratio the chain returned has the shape.
C14_ShapeForEveryPositiveRatio ==
    ppc = "done" => ChainShape

\* C14 amended: for every positive ratio the planner returns, and the floor
\* loop never iterates after the ceiling loop has; for every positive ratio
\* other than 1.0 the chain returned has the shape.
C14_TerminatesInShape ==
    /\ <>(ppc = "done")
    /\ [](NoFloorAfterCeiling)
    /\ []((ppc = "done" /\ ratio_in # Rat(1, 1)) => ChainShape)

\* 1/6 took two turns of the floor loop and left the remainder 2/3
C14_Witness ==
    /\ ppc = "done"
    /\ ratio_in = Rat(1, 6)
    /\ filters = <<Rat(1, 2), Rat(1, 2), Rat(667, 1000)>>
    /\ remaining_ratio = Rat(2, 3)

-----------------------------------------------------------------------------
(* Filters and clamping in mode B *)

\* C15: in mode B with max_speed_ratio >= 0.5, a raw ratio Vo/Aa within
\* [0.5, max_speed_ratio] makes the scaled video as long as the audio and
\* leaves the command without pad or trim; a pad is emitted only when the ratio
\* was clamped down to max_speed_ratio, a trim only when it was clamped up to 0.5.
C15_FilterImpliesClamping ==
    (ModeBRan /\ RLe(Rat(1, 2), max_speed_ratio)) =>
        LET raw == RDiv(video_duration, audio_duration)
        IN  /\ (RLe(Rat(1, 2), raw) /\ RLe(raw, max_speed_ratio)) =>
                 /\ RDiv(video_duration, speed_ratio) = audio_duration
                 /\ cmd.af = <<>>
            /\ HasFilter("apad") =>
                 (RLt(max_speed_ratio, raw) /\ speed_ratio = max_speed_ratio)
            /\ HasFilter("atrim") =>
                 (RLt(raw, Rat(1, 2)) /\ speed_ratio = Rat(1, 2))

\* an unclamped speed-up by 2.0 under the ceiling 2.5: no audio filter
C15_Witness ==
    /\ ModeBRan
    /\ max_speed_ratio = Rat(5, 2)
    /\ RDiv(video_duration, audio_duration) = Rat(2, 1)
    /\ speed_ratio = Rat(2, 1)
    /\ cmd.af = <<>>

====
